---------------------------- MODULE Spec2Model ----------------------------
(***************************************************************************)
(* A model of the coordination logic of src/src/ui/editor.ts (EditorUI):   *)
(* the reference-counted spinner, the progress overlay, the publish,      *)
(* image and video dialog flows registered on the event bus, the camera    *)
(* presets and the per-frame annotation projector.                         *)
(* Strings that the code slices or concatenates (file names, extensions)   *)
(* are sequences of one-character strings.                                 *)
(***************************************************************************)
EXTENDS Integers, Sequences, FiniteSets, TLC

VARIABLES
    \* spinner (editor.ts 460-478)
    spinnerCount,      \* let spinnerCount
    spinnerHidden,     \* spinner.hidden
    starts,            \* history: startSpinner events fired so far
    stops,             \* history: stopSpinner events fired so far
    stopsAtZero,       \* history: stopSpinner events fired while the count was 0
    \* annotation projector (editor.ts 236-265)
    noteDisplay,       \* note.style.display
    noteLeft,          \* note.style.left, in tenths of a pixel
    noteTop,           \* note.style.top, in tenths of a pixel
    noteScreen,        \* noteScreen, each coordinate in tenths
    noteRuns,          \* history: runs of updateNote so far
    noteCamera,        \* history: whether the last run found scene.camera.worldToScreen
    \* publish flow (editor.ts 346-365), one entry per invocation of the command
    pubPc,             \* where the async handler is suspended
    pubStatus,         \* const userStatus
    pubPopups,         \* the options of each events.invoke('showPopup', ...)
    pubShows,          \* the argument of each publishSettingsDialog.show(...)
    pubPublishes,      \* the argument of each events.invoke('scene.publish', ...)
    pubResult,         \* how the handler's promise settled
    pubSettings,       \* const publishSettings
    \* video flow (editor.ts 375-450), the current invocation of the command
    vidPc,             \* where the async handler is suspended
    vidSettings,       \* const videoSettings
    vidDocNames,       \* what each events.invoke('doc.name') returned
    vidFileExtension,  \* let fileExtension
    vidFilePickerTypes,\* let filePickerTypes (its single entry)
    vidSuggested,      \* const suggested
    vidPickerCalls,    \* the options of each window.showSaveFilePicker(...)
    vidRenders,        \* the arguments of each events.invoke('render.video', ...)
    vidPopups,         \* the options of each events.invoke('showPopup', ...)
    vidFailure,        \* history: the error the catch clause received, and its origin
    vidResult,         \* how the handler's promise settled
    vidHasPicker,      \* history: what the test of window.showSaveFilePicker found
    \* image flow (editor.ts 367-373), the current invocation of the command
    imgPc,             \* where the async handler is suspended
    imgSettings,       \* const imageSettings
    imgRenders,        \* the argument of each events.invoke('render.image', ...)
    imgResult,         \* how the handler's promise settled
    \* progress overlay (editor.ts 482-502)
    progressHidden,    \* progress.hidden
    progressHeader,    \* what Progress shows as header
    progressText,      \* what Progress shows as text
    progressValue,     \* what Progress shows as progress, in tenths
    progLast,          \* history: the last progress event and its payload
    \* operations that bracket their work with overlay events
    spinOps,           \* each operation firing startSpinner / stopSpinner
    progOps,           \* each operation firing progressStart / progressEnd
    \* camera presets (editor.ts 175-194)
    scene,             \* (window as any).scene: what the global exposes
    sceneForceRender,  \* scene.forceRender
    presetCalls        \* history: each applyPreset call, with what it found and did

spinnerVars == <<spinnerCount, spinnerHidden, starts, stops, stopsAtZero>>
noteVars == <<noteDisplay, noteLeft, noteTop, noteScreen, noteRuns, noteCamera>>
pubVars == <<pubPc, pubStatus, pubPopups, pubShows, pubPublishes, pubResult, pubSettings>>
vidVars == <<vidPc, vidSettings, vidDocNames, vidFileExtension, vidFilePickerTypes,
             vidSuggested, vidPickerCalls, vidRenders, vidPopups, vidFailure, vidResult,
             vidHasPicker>>
imgVars == <<imgPc, imgSettings, imgRenders, imgResult>>
progVars == <<progressHidden, progressHeader, progressText, progressValue, progLast>>
opsVars == <<spinOps, progOps>>
presetVars == <<scene, sceneForceRender, presetCalls>>
vars == <<spinnerVars, noteVars, pubVars, vidVars, imgVars, progVars, opsVars, presetVars>>

Max(a, b) == IF a >= b THEN a ELSE b

---------------------------------------------------------------------------
(* Bounds of the model *)

\* startSpinner and stopSpinner events fired in one behaviour (each)
MaxEvents == 6
\* runs of updateNote in one behaviour
MaxNoteRuns == 2
\* invocations of show.publishSettingsDialog in one behaviour
NumPublishInvocations == 2
\* length of the document names doc.name returns
MaxNameLen == 3
\* operations running concurrently, each bracketing its work with overlay events
NumOps == 5
\* applyPreset calls in one behaviour
MaxPresetCalls == 2

---------------------------------------------------------------------------
(* Spinner: events.on('startSpinner') / events.on('stopSpinner') *)

\* new Spinner(): the Spinner component is constructed hidden
SpinnerInitiallyHidden == TRUE

\* spinnerCount++
StartSpinnerCount(c) == c + 1

\* if (spinnerCount === 1), evaluated on the incremented count
ShowOnStartBug(c) == c = 0
ShowOnStart(c) == c = 1

\* spinnerCount = Math.max(0, spinnerCount - 1)
StopSpinnerCountUnclamped(c) == c - 1
StopSpinnerCount(c) == Max(0, c - 1)

\* if (spinnerCount === 0), evaluated on the decremented count
HideOnStopAlways(c) == TRUE
HideOnStop(c) == c = 0

\* the body of the startSpinner subscriber
StartSpinnerHandler ==
    /\ spinnerCount' = StartSpinnerCount(spinnerCount)
    /\ spinnerHidden' = IF ShowOnStart(spinnerCount') THEN FALSE ELSE spinnerHidden
    /\ starts' = starts + 1
    /\ UNCHANGED <<stops, stopsAtZero>>

\* the body of the stopSpinner subscriber
StopSpinnerHandler ==
    /\ spinnerCount' = StopSpinnerCount(spinnerCount)
    /\ spinnerHidden' = IF HideOnStop(spinnerCount') THEN TRUE ELSE spinnerHidden
    /\ stops' = stops + 1
    /\ stopsAtZero' = IF spinnerCount = 0 THEN stopsAtZero + 1 ELSE stopsAtZero
    /\ UNCHANGED starts

startSpinner ==
    /\ starts < MaxEvents
    /\ StartSpinnerHandler
    /\ UNCHANGED <<noteVars, pubVars, vidVars, imgVars, progVars, opsVars, presetVars>>

stopSpinner ==
    /\ stops < MaxEvents
    /\ StopSpinnerHandler
    /\ UNCHANGED <<noteVars, pubVars, vidVars, imgVars, progVars, opsVars, presetVars>>

---------------------------------------------------------------------------
(* Progress overlay: events.on('progressStart' / 'progressUpdate' / 'progressEnd') *)

\* new Progress(): the component is constructed hidden, with empty header
\* and text and no progress
ProgressInitiallyHidden == TRUE
DefaultHeader == ""
DefaultText == ""
DefaultValue == 0

\* the header strings of progressStart
Headers == {"Exporting", "Rendering"}
\* options.text: a string, or undefined when the payload has none
Texts == {"frame 1", "frame 2"}
UndefinedText == "undefined"
\* options.progress, in tenths: a number, or undefined when the payload has none
ProgressNumbers == {-5, 0, 5, 10, 15}
UndefinedNumber == [kind |-> "undefined", n |-> 0]
Payloads ==
    [text : Texts \cup {UndefinedText},
     progress : {UndefinedNumber} \cup {[kind |-> "number", n |-> v] : v \in ProgressNumbers}]
NoProgressEvent ==
    [event |-> "none", header |-> "", text |-> UndefinedText, progress |-> UndefinedNumber]

\* Progress.setHeader(header): the header becomes the given string
ProgressSetHeader(h) == h
\* Progress.setText(text): the text becomes the given string
ProgressSetText(t) == t
\* Progress.setProgress(value): the value is kept within [0,1], by clamping
\* it or by rejecting it (what the component may store, in tenths)
ProgressSetProgressUnchecked(old, v) == {v}
ProgressSetProgress(old, v) ==
    IF v \in 0..10 THEN {v} ELSE {old, IF v < 0 THEN 0 ELSE 10}

\* if (options.text !== undefined)
TextPresentAlways(o) == TRUE
TextPresent(o) == o.text # UndefinedText
\* if (options.progress !== undefined)
ProgressPresent(o) == o.progress.kind # "undefined"

\* the body of the progressStart subscriber
ProgressStartHandler(h) ==
    /\ progressHidden' = FALSE
    /\ progressHeader' = ProgressSetHeader(h)
    /\ progLast' = [event |-> "start", header |-> h, text |-> UndefinedText,
                    progress |-> UndefinedNumber]
    /\ UNCHANGED <<progressText, progressValue>>

\* the body of the progressEnd subscriber
ProgressEndHandler ==
    /\ progressHidden' = TRUE
    /\ progLast' = [event |-> "end", header |-> "", text |-> UndefinedText,
                    progress |-> UndefinedNumber]
    /\ UNCHANGED <<progressHeader, progressText, progressValue>>

progressStart ==
    /\ \E h \in Headers : ProgressStartHandler(h)
    /\ UNCHANGED <<spinnerVars, noteVars, pubVars, vidVars, imgVars, opsVars, presetVars>>

progressUpdate ==
    /\ \E o \in Payloads :
        /\ progressText' = IF TextPresent(o) THEN ProgressSetText(o.text) ELSE progressText
        /\ IF ProgressPresent(o)
             THEN progressValue' \in ProgressSetProgress(progressValue, o.progress.n)
             ELSE progressValue' = progressValue
        /\ progLast' = [event |-> "update", header |-> "", text |-> o.text,
                        progress |-> o.progress]
    /\ UNCHANGED <<progressHidden, progressHeader>>
    /\ UNCHANGED <<spinnerVars, noteVars, pubVars, vidVars, imgVars, opsVars, presetVars>>

progressEnd ==
    /\ ProgressEndHandler
    /\ UNCHANGED <<spinnerVars, noteVars, pubVars, vidVars, imgVars, opsVars, presetVars>>

---------------------------------------------------------------------------
(* Operations that run concurrently and bracket their work with overlay events *)

Ops == 1..NumOps

\* an operation begins: events.fire('startSpinner')
SpinOpBegin(o) ==
    /\ spinOps[o] = "idle"
    /\ spinOps' = [spinOps EXCEPT ![o] = "running"]
    /\ StartSpinnerHandler
    /\ UNCHANGED progOps
    /\ UNCHANGED <<noteVars, pubVars, vidVars, imgVars, progVars, presetVars>>

\* an operation ends: events.fire('stopSpinner')
SpinOpEnd(o) ==
    /\ spinOps[o] = "running"
    /\ spinOps' = [spinOps EXCEPT ![o] = "ended"]
    /\ StopSpinnerHandler
    /\ UNCHANGED progOps
    /\ UNCHANGED <<noteVars, pubVars, vidVars, imgVars, progVars, presetVars>>

\* an operation begins: events.fire('progressStart', header)
ProgOpBegin(o) ==
    /\ progOps[o] = "idle"
    /\ progOps' = [progOps EXCEPT ![o] = "running"]
    /\ \E h \in Headers : ProgressStartHandler(h)
    /\ UNCHANGED spinOps
    /\ UNCHANGED <<spinnerVars, noteVars, pubVars, vidVars, imgVars, presetVars>>

\* an operation ends: events.fire('progressEnd')
ProgOpEnd(o) ==
    /\ progOps[o] = "running"
    /\ progOps' = [progOps EXCEPT ![o] = "ended"]
    /\ ProgressEndHandler
    /\ UNCHANGED spinOps
    /\ UNCHANGED <<spinnerVars, noteVars, pubVars, vidVars, imgVars, presetVars>>

---------------------------------------------------------------------------
(* Annotation projector: updateNote, subscribed to 'prerender' and 'resize' *)

\* the normalized coordinates, in tenths, that worldToScreen may write
Coords == {-5, 0, 5, 10, 15}
\* canvas.getBoundingClientRect(): left, top, width, height in pixels
Rects == {[left |-> 0, top |-> 0, width |-> 4, height |-> 2],
          [left |-> 3, top |-> 1, width |-> 2, height |-> 4]}

\* const inside = noteScreen.z >= 0 && noteScreen.z <= 1 && ... (in tenths)
InsideIgnoringDepth(s) ==
    /\ s.x >= 0 /\ s.x <= 10
    /\ s.y >= 0 /\ s.y <= 10
Inside(s) ==
    /\ s.z >= 0 /\ s.z <= 10
    /\ s.x >= 0 /\ s.x <= 10
    /\ s.y >= 0 /\ s.y <= 10

\* if (!scene?.camera?.worldToScreen) { note.style.display = 'none'; return; }
updateNoteNoCamera ==
    /\ noteRuns < MaxNoteRuns
    /\ noteDisplay' = "none"
    /\ noteRuns' = noteRuns + 1
    /\ noteCamera' = FALSE
    /\ UNCHANGED <<noteLeft, noteTop, noteScreen>>
    /\ UNCHANGED <<spinnerVars, pubVars, vidVars, imgVars, progVars, opsVars, presetVars>>

\* scene.camera.worldToScreen(noteWorld, noteScreen) and the rest of updateNote
updateNoteCamera ==
    /\ noteRuns < MaxNoteRuns
    /\ \E x \in Coords, y \in Coords, z \in Coords, rect \in Rects :
        /\ noteScreen' = [x |-> x, y |-> y, z |-> z]
        /\ IF ~Inside(noteScreen')
             THEN /\ noteDisplay' = "none"
                  /\ UNCHANGED <<noteLeft, noteTop>>
             ELSE /\ noteDisplay' = "flex"
                  /\ noteLeft' = rect.left * 10 + x * rect.width
                  /\ noteTop' = rect.top * 10 + y * rect.height
    /\ noteRuns' = noteRuns + 1
    /\ noteCamera' = TRUE
    /\ UNCHANGED <<spinnerVars, pubVars, vidVars, imgVars, progVars, opsVars, presetVars>>

---------------------------------------------------------------------------
(* Publish flow: events.function('show.publishSettingsDialog', async ...) *)

PubInv == 1..NumPublishInvocations

\* what publish.userStatus may resolve to: falsy values and user records
UserStatuses == {"null", "undefined", "false", "userA", "userB"}
\* what publishSettingsDialog.show may resolve to: settings, or null on dismissal
PublishSettings == {"settingsA", "settingsB"}
NoSettings == "null"

\* if (!userStatus)
FalsyOnlyNull(v) == v = "null"
Falsy(v) == v \in {"null", "undefined", "false"}

\* if (publishSettings), if (imageSettings): the dialogs resolve with a
\* settings object or with null
TruthyAlways(s) == TRUE
Truthy(s) == s # NoSettings

\* { type: 'error', header: localize('popup.error'),
\*   message: localize('popup.publish.please-log-in') }
PleaseLogInPopup ==
    [type |-> "error", header |-> "popup.error",
     message |-> "popup.publish.please-log-in"]

\* the command is invoked: the handler runs up to
\* await events.invoke('publish.userStatus')
PubInvoke(i) ==
    /\ pubPc[i] = "idle"
    /\ pubPc' = [pubPc EXCEPT ![i] = "awaitUserStatus"]
    /\ UNCHANGED <<pubStatus, pubPopups, pubShows, pubPublishes, pubResult, pubSettings>>
    /\ UNCHANGED <<spinnerVars, noteVars, vidVars, imgVars, progVars, opsVars, presetVars>>

\* publish.userStatus resolves with v: the handler runs up to its next await
PubUserStatusResolves(i) ==
    /\ pubPc[i] = "awaitUserStatus"
    /\ \E v \in UserStatuses :
        /\ pubStatus' = [pubStatus EXCEPT ![i] = v]
        /\ IF Falsy(v)
             THEN /\ pubPopups' = [pubPopups EXCEPT ![i] = Append(@, PleaseLogInPopup)]
                  /\ pubPc' = [pubPc EXCEPT ![i] = "awaitPopup"]
                  /\ UNCHANGED pubShows
             ELSE /\ pubShows' = [pubShows EXCEPT ![i] = Append(@, v)]
                  /\ pubPc' = [pubPc EXCEPT ![i] = "awaitDialog"]
                  /\ UNCHANGED pubPopups
    /\ UNCHANGED <<pubPublishes, pubResult, pubSettings>>
    /\ UNCHANGED <<spinnerVars, noteVars, vidVars, imgVars, progVars, opsVars, presetVars>>

\* an awaited call rejects: nothing catches it, the handler's promise rejects
PubAwaitedRejects(i) ==
    /\ pubPc[i] \in {"awaitUserStatus", "awaitPopup", "awaitDialog", "awaitPublish"}
    /\ pubPc' = [pubPc EXCEPT ![i] = "done"]
    /\ pubResult' = [pubResult EXCEPT ![i] = "rejected"]
    /\ UNCHANGED <<pubStatus, pubPopups, pubShows, pubPublishes, pubSettings>>
    /\ UNCHANGED <<spinnerVars, noteVars, vidVars, imgVars, progVars, opsVars, presetVars>>

\* showPopup resolves: return false
PubPopupResolves(i) ==
    /\ pubPc[i] = "awaitPopup"
    /\ pubPc' = [pubPc EXCEPT ![i] = "done"]
    /\ pubResult' = [pubResult EXCEPT ![i] = "false"]
    /\ UNCHANGED <<pubStatus, pubPopups, pubShows, pubPublishes, pubSettings>>
    /\ UNCHANGED <<spinnerVars, noteVars, vidVars, imgVars, progVars, opsVars, presetVars>>

\* publishSettingsDialog.show resolves: if (publishSettings) await scene.publish
PubDialogResolves(i) ==
    /\ pubPc[i] = "awaitDialog"
    /\ \E s \in PublishSettings \cup {NoSettings} :
        /\ pubSettings' = [pubSettings EXCEPT ![i] = s]
        /\ IF Truthy(s)
             THEN /\ pubPublishes' = [pubPublishes EXCEPT ![i] = Append(@, s)]
                  /\ pubPc' = [pubPc EXCEPT ![i] = "awaitPublish"]
                  /\ UNCHANGED pubResult
             ELSE /\ pubPc' = [pubPc EXCEPT ![i] = "done"]
                  /\ pubResult' = [pubResult EXCEPT ![i] = "undefined"]
                  /\ UNCHANGED pubPublishes
    /\ UNCHANGED <<pubStatus, pubPopups, pubShows>>
    /\ UNCHANGED <<spinnerVars, noteVars, vidVars, imgVars, progVars, opsVars, presetVars>>

\* scene.publish resolves: the handler returns undefined
PubPublishResolves(i) ==
    /\ pubPc[i] = "awaitPublish"
    /\ pubPc' = [pubPc EXCEPT ![i] = "done"]
    /\ pubResult' = [pubResult EXCEPT ![i] = "undefined"]
    /\ UNCHANGED <<pubStatus, pubPopups, pubShows, pubPublishes, pubSettings>>
    /\ UNCHANGED <<spinnerVars, noteVars, vidVars, imgVars, progVars, opsVars, presetVars>>

---------------------------------------------------------------------------
(* Image flow: events.function('show.imageSettingsDialog', async ...) *)

\* what imageSettingsDialog.show may resolve to: settings, or null on dismissal
ImageSettings == {"imageA", "imageB"}

\* the command is invoked: the handler runs up to await imageSettingsDialog.show()
ImgInvoke ==
    /\ imgPc \in {"idle", "done"}
    /\ imgPc' = "awaitDialog"
    /\ imgSettings' = "unset"
    /\ imgRenders' = <<>>
    /\ imgResult' = "pending"
    /\ UNCHANGED <<spinnerVars, noteVars, pubVars, vidVars, progVars, opsVars, presetVars>>

\* imageSettingsDialog.show resolves: if (imageSettings) await render.image
ImgDialogResolves ==
    /\ imgPc = "awaitDialog"
    /\ \E s \in ImageSettings \cup {NoSettings} :
        /\ imgSettings' = s
        /\ IF Truthy(s)
             THEN /\ imgRenders' = Append(imgRenders, s)
                  /\ imgPc' = "awaitRender"
                  /\ UNCHANGED imgResult
             ELSE /\ imgPc' = "done"
                  /\ imgResult' = "undefined"
                  /\ UNCHANGED imgRenders
    /\ UNCHANGED <<spinnerVars, noteVars, pubVars, vidVars, progVars, opsVars, presetVars>>

\* an awaited call rejects: nothing catches it, the handler's promise rejects
ImgAwaitedRejects ==
    /\ imgPc \in {"awaitDialog", "awaitRender"}
    /\ imgPc' = "done"
    /\ imgResult' = "rejected"
    /\ UNCHANGED <<imgSettings, imgRenders>>
    /\ UNCHANGED <<spinnerVars, noteVars, pubVars, vidVars, progVars, opsVars, presetVars>>

\* render.image resolves: the handler returns undefined
ImgRenderResolves ==
    /\ imgPc = "awaitRender"
    /\ imgPc' = "done"
    /\ imgResult' = "undefined"
    /\ UNCHANGED <<imgSettings, imgRenders>>
    /\ UNCHANGED <<spinnerVars, noteVars, pubVars, vidVars, progVars, opsVars, presetVars>>

---------------------------------------------------------------------------
(* File names: removeExtension and the path.getExtension it calls *)

\* the characters of a document name: a letter, the dot, the question mark
NameChars == {"a", ".", "?"}
Names == UNION {[1..k -> NameChars] : k \in 0..MaxNameLen}
SceneDotPly == <<"s", "c", "e", "n", "e", ".", "p", "l", "y">>
\* docName ?? 'supersplat'
Supersplat == <<"s", "u", "p", "e", "r", "s", "p", "l", "a", "t">>
\* what doc.name may return: a string, null or undefined
DocNames ==
    {[kind |-> "string", chars |-> n] : n \in Names \cup {SceneDotPly}}
        \cup {[kind |-> "null", chars |-> <<>>], [kind |-> "undefined", chars |-> <<>>]}

FirstIndexOf(s, ch) ==
    IF \E i \in 1..Len(s) : s[i] = ch
      THEN CHOOSE i \in 1..Len(s) : s[i] = ch /\ \A j \in 1..(i - 1) : s[j] # ch
      ELSE 0
LastIndexOf(s, ch) ==
    IF \E i \in 1..Len(s) : s[i] = ch
      THEN CHOOSE i \in 1..Len(s) : s[i] = ch /\ \A j \in (i + 1)..Len(s) : s[j] # ch
      ELSE 0

\* path.split('?')[0]
BeforeQuery(s) ==
    IF FirstIndexOf(s, "?") = 0 THEN s ELSE SubSeq(s, 1, FirstIndexOf(s, "?") - 1)
\* x.split('.').pop()
AfterLastDot(s) ==
    IF LastIndexOf(s, ".") = 0 THEN s ELSE SubSeq(s, LastIndexOf(s, ".") + 1, Len(s))

\* playcanvas path.getExtension: const ext = path.split('?')[0].split('.').pop();
\* if (ext !== path) return `.${ext}`; return '';
GetExtension(s) ==
    IF AfterLastDot(BeforeQuery(s)) # s
      THEN <<".">> \o AfterLastDot(BeforeQuery(s))
      ELSE <<>>

\* filename.substring(0, filename.length - path.getExtension(filename).length)
removeExtension(s) == SubSeq(s, 1, Max(0, Len(s) - Len(GetExtension(s))))

---------------------------------------------------------------------------
(* Video flow: events.function('show.videoSettingsDialog', async ...) *)

Formats == {"webm", "mov", "mkv", "mp4", "avi"}
Codecs == {"h265", "xyz"}
\* what videoSettingsDialog.show may resolve to: settings, or null on dismissal
VideoSettings == [format : Formats, codec : Codecs]
NoVideoSettings == [format |-> "null", codec |-> "null"]
\* the locals before the handler assigns them
UnsetVideoSettings == [format |-> "unset", codec |-> "unset"]
UnsetFilePickerTypes ==
    [description |-> <<"unset", "unset">>, mime |-> "unset", extensions |-> <<>>]

\* codecNames[videoSettings.codec] || videoSettings.codec.toUpperCase()
CodecName(codec) ==
    CASE codec = "h264" -> "H.264"
      [] codec = "h265" -> "H.265"
      [] codec = "vp9" -> "VP9"
      [] codec = "av1" -> "AV1"
      [] codec = "xyz" -> "XYZ"
      [] OTHER -> codec

\* the if / else if chain on videoSettings.format: fileExtension and the
\* entry of filePickerTypes
FormatEntryNoMkv(format, codec) ==
    CASE format = "webm" ->
           [ext |-> <<".", "w", "e", "b", "m">>, container |-> "WebM Video",
            codec |-> CodecName(codec), mime |-> "video/webm",
            accept |-> <<".", "w", "e", "b", "m">>]
      [] format = "mov" ->
           [ext |-> <<".", "m", "o", "v">>, container |-> "MOV Video",
            codec |-> CodecName(codec), mime |-> "video/quicktime",
            accept |-> <<".", "m", "o", "v">>]
      [] OTHER ->
           [ext |-> <<".", "m", "p", "4">>, container |-> "MP4 Video",
            codec |-> CodecName(codec), mime |-> "video/mp4",
            accept |-> <<".", "m", "p", "4">>]
FormatEntry(format, codec) ==
    CASE format = "webm" ->
           [ext |-> <<".", "w", "e", "b", "m">>, container |-> "WebM Video",
            codec |-> CodecName(codec), mime |-> "video/webm",
            accept |-> <<".", "w", "e", "b", "m">>]
      [] format = "mov" ->
           [ext |-> <<".", "m", "o", "v">>, container |-> "MOV Video",
            codec |-> CodecName(codec), mime |-> "video/quicktime",
            accept |-> <<".", "m", "o", "v">>]
      [] format = "mkv" ->
           [ext |-> <<".", "m", "k", "v">>, container |-> "MKV Video",
            codec |-> CodecName(codec), mime |-> "video/x-matroska",
            accept |-> <<".", "m", "k", "v">>]
      [] OTHER ->
           [ext |-> <<".", "m", "p", "4">>, container |-> "MP4 Video",
            codec |-> CodecName(codec), mime |-> "video/mp4",
            accept |-> <<".", "m", "p", "4">>]

\* `${removeExtension(docName ?? 'supersplat')}${fileExtension}`
SuggestedName(docName, fileExtension) ==
    removeExtension(IF docName.kind \in {"null", "undefined"}
                      THEN Supersplat ELSE docName.chars)
        \o fileExtension

\* the values an awaited call may reject with (or doc.name may throw):
\* DOMExceptions, Errors, and a thrown string; text is String(error)
DomAbort == [dom |-> TRUE, name |-> "AbortError", message |-> "aborted",
             text |-> "AbortError: aborted"]
DomNotAllowed == [dom |-> TRUE, name |-> "NotAllowedError", message |-> "denied",
                  text |-> "NotAllowedError: denied"]
PlainAbort == [dom |-> FALSE, name |-> "AbortError", message |-> "stopped",
               text |-> "AbortError: stopped"]
PlainError == [dom |-> FALSE, name |-> "Error", message |-> "failed",
               text |-> "Error: failed"]
ThrownString == [dom |-> FALSE, name |-> "undefined", message |-> "undefined",
                 text |-> "oops"]
Errors == {DomAbort, DomNotAllowed, PlainAbort, PlainError, ThrownString}
\* doc.name is a synchronous bus function: it throws no DOMException
DocNameErrors == {PlainAbort, PlainError, ThrownString}
NoFailure == [origin |-> "none", error |-> [dom |-> FALSE, name |-> "none",
                                             message |-> "none", text |-> "none"]]

\* error instanceof DOMException && error.name === 'AbortError'
IsUserCancelWrongName(e) == e.dom /\ e.name = "NotAllowedError"
IsUserCancel(e) == e.dom /\ e.name = "AbortError"

\* error.message ?? error, inside the template string
MessageOf(e) == IF e.message # "undefined" THEN e.message ELSE e.text

\* { type: 'error', header: 'Failed to render video',
\*   message: `'${error.message ?? error}'` }
RenderFailedPopup(e) ==
    [type |-> "error", header |-> "Failed to render video",
     message |-> <<"'", MessageOf(e), "'">>]

\* if (window.showSaveFilePicker)
PickerAvailableAlways(hasPicker) == TRUE
PickerAvailable(hasPicker) == hasPicker

\* catch (error) { ... }: up to its return or its await of showPopup
VidCatch(origin, e) ==
    /\ vidFailure' = [origin |-> origin, error |-> e]
    /\ IF IsUserCancel(e)
         THEN /\ vidPc' = "done"
              /\ vidResult' = "undefined"
              /\ UNCHANGED vidPopups
         ELSE /\ vidPopups' = Append(vidPopups, RenderFailedPopup(e))
              /\ vidPc' = "awaitPopup"
              /\ UNCHANGED vidResult

\* the command is invoked: the handler runs up to
\* await videoSettingsDialog.show()
VidInvoke ==
    /\ vidPc \in {"idle", "done"}
    /\ vidPc' = "awaitDialog"
    /\ vidSettings' = UnsetVideoSettings
    /\ vidDocNames' = <<>>
    /\ vidFileExtension' = <<>>
    /\ vidFilePickerTypes' = UnsetFilePickerTypes
    /\ vidSuggested' = <<>>
    /\ vidPickerCalls' = <<>>
    /\ vidRenders' = <<>>
    /\ vidPopups' = <<>>
    /\ vidFailure' = NoFailure
    /\ vidResult' = "pending"
    /\ vidHasPicker' = "untested"
    /\ UNCHANGED <<spinnerVars, noteVars, pubVars, imgVars, progVars, opsVars, presetVars>>

\* videoSettingsDialog.show rejects: outside the try block, the promise rejects
VidDialogRejects ==
    /\ vidPc = "awaitDialog"
    /\ vidPc' = "done"
    /\ vidResult' = "rejected"
    /\ UNCHANGED <<vidSettings, vidDocNames, vidFileExtension, vidFilePickerTypes,
                   vidSuggested, vidPickerCalls, vidRenders, vidPopups, vidFailure>>
    /\ UNCHANGED vidHasPicker
    /\ UNCHANGED <<spinnerVars, noteVars, pubVars, imgVars, progVars, opsVars, presetVars>>

\* videoSettingsDialog.show resolves without settings: if (videoSettings) is skipped
VidDialogDismissed ==
    /\ vidPc = "awaitDialog"
    /\ vidSettings' = NoVideoSettings
    /\ vidPc' = "done"
    /\ vidResult' = "undefined"
    /\ UNCHANGED <<vidDocNames, vidFileExtension, vidFilePickerTypes,
                   vidSuggested, vidPickerCalls, vidRenders, vidPopups, vidFailure>>
    /\ UNCHANGED vidHasPicker
    /\ UNCHANGED <<spinnerVars, noteVars, pubVars, imgVars, progVars, opsVars, presetVars>>

\* videoSettingsDialog.show resolves with settings and doc.name throws
VidDocNameThrows ==
    /\ vidPc = "awaitDialog"
    /\ \E s \in VideoSettings, e \in DocNameErrors :
        /\ vidSettings' = s
        /\ VidCatch("doc.name", e)
    /\ UNCHANGED <<vidDocNames, vidFileExtension, vidFilePickerTypes,
                   vidSuggested, vidPickerCalls, vidRenders>>
    /\ UNCHANGED vidHasPicker
    /\ UNCHANGED <<spinnerVars, noteVars, pubVars, imgVars, progVars, opsVars, presetVars>>

\* videoSettingsDialog.show resolves with settings: the try block runs up to
\* await window.showSaveFilePicker(...) or, without a picker, up to
\* await events.invoke('render.video', videoSettings, writable)
VidDialogConfirmed ==
    /\ vidPc = "awaitDialog"
    /\ \E s \in VideoSettings, docName \in DocNames, hasPicker \in BOOLEAN :
        /\ vidSettings' = s
        /\ vidDocNames' = Append(vidDocNames, docName)
        /\ vidFileExtension' = FormatEntry(s.format, s.codec).ext
        /\ vidFilePickerTypes' =
               [description |-> <<FormatEntry(s.format, s.codec).container,
                                  FormatEntry(s.format, s.codec).codec>>,
                mime |-> FormatEntry(s.format, s.codec).mime,
                extensions |-> <<FormatEntry(s.format, s.codec).accept>>]
        /\ vidSuggested' = SuggestedName(docName, vidFileExtension')
        /\ vidHasPicker' = IF hasPicker THEN "yes" ELSE "no"
        /\ IF PickerAvailable(hasPicker)
             THEN /\ vidPickerCalls' = Append(vidPickerCalls,
                        [id |-> "SuperSplatVideoFileExport",
                         types |-> <<vidFilePickerTypes'>>,
                         suggestedName |-> vidSuggested'])
                  /\ vidPc' = "awaitPicker"
                  /\ UNCHANGED vidRenders
             ELSE /\ vidRenders' = Append(vidRenders,
                        [settings |-> s, writable |-> "undefined"])
                  /\ vidPc' = "awaitRender"
                  /\ UNCHANGED vidPickerCalls
    /\ UNCHANGED <<vidPopups, vidFailure, vidResult>>
    /\ UNCHANGED <<spinnerVars, noteVars, pubVars, imgVars, progVars, opsVars, presetVars>>

\* showSaveFilePicker resolves with a handle: await fileHandle.createWritable()
VidPickerResolves ==
    /\ vidPc = "awaitPicker"
    /\ vidPc' = "awaitWritable"
    /\ UNCHANGED <<vidSettings, vidDocNames, vidFileExtension, vidFilePickerTypes,
                   vidSuggested, vidPickerCalls, vidRenders, vidPopups, vidFailure,
                   vidResult>>
    /\ UNCHANGED vidHasPicker
    /\ UNCHANGED <<spinnerVars, noteVars, pubVars, imgVars, progVars, opsVars, presetVars>>

\* showSaveFilePicker rejects (DomAbort: the user cancelled the picker)
VidPickerRejectsThenRenders ==
    /\ vidPc = "awaitPicker"
    /\ \E e \in Errors :
        /\ vidFailure' = [origin |-> "picker", error |-> e]
        /\ vidRenders' = Append(vidRenders,
               [settings |-> vidSettings, writable |-> "undefined"])
        /\ vidPc' = "awaitRender"
    /\ UNCHANGED <<vidSettings, vidDocNames, vidFileExtension, vidFilePickerTypes,
                   vidSuggested, vidPickerCalls, vidPopups, vidResult>>
    /\ UNCHANGED vidHasPicker
    /\ UNCHANGED <<spinnerVars, noteVars, pubVars, imgVars, progVars, opsVars, presetVars>>
VidPickerRejects ==
    /\ vidPc = "awaitPicker"
    /\ \E e \in Errors : VidCatch("picker", e)
    /\ UNCHANGED <<vidSettings, vidDocNames, vidFileExtension, vidFilePickerTypes,
                   vidSuggested, vidPickerCalls, vidRenders>>
    /\ UNCHANGED vidHasPicker
    /\ UNCHANGED <<spinnerVars, noteVars, pubVars, imgVars, progVars, opsVars, presetVars>>

\* createWritable resolves: await events.invoke('render.video', videoSettings, writable)
VidWritableResolves ==
    /\ vidPc = "awaitWritable"
    /\ vidRenders' = Append(vidRenders, [settings |-> vidSettings, writable |-> "writable"])
    /\ vidPc' = "awaitRender"
    /\ UNCHANGED <<vidSettings, vidDocNames, vidFileExtension, vidFilePickerTypes,
                   vidSuggested, vidPickerCalls, vidPopups, vidFailure, vidResult>>
    /\ UNCHANGED vidHasPicker
    /\ UNCHANGED <<spinnerVars, noteVars, pubVars, imgVars, progVars, opsVars, presetVars>>

\* createWritable rejects
VidWritableRejects ==
    /\ vidPc = "awaitWritable"
    /\ \E e \in Errors : VidCatch("createWritable", e)
    /\ UNCHANGED <<vidSettings, vidDocNames, vidFileExtension, vidFilePickerTypes,
                   vidSuggested, vidPickerCalls, vidRenders>>
    /\ UNCHANGED vidHasPicker
    /\ UNCHANGED <<spinnerVars, noteVars, pubVars, imgVars, progVars, opsVars, presetVars>>

\* render.video resolves: the handler returns
VidRenderResolves ==
    /\ vidPc = "awaitRender"
    /\ vidPc' = "done"
    /\ vidResult' = "undefined"
    /\ UNCHANGED <<vidSettings, vidDocNames, vidFileExtension, vidFilePickerTypes,
                   vidSuggested, vidPickerCalls, vidRenders, vidPopups, vidFailure>>
    /\ UNCHANGED vidHasPicker
    /\ UNCHANGED <<spinnerVars, noteVars, pubVars, imgVars, progVars, opsVars, presetVars>>

\* render.video rejects
VidRenderRejects ==
    /\ vidPc = "awaitRender"
    /\ \E e \in Errors : VidCatch("render.video", e)
    /\ UNCHANGED <<vidSettings, vidDocNames, vidFileExtension, vidFilePickerTypes,
                   vidSuggested, vidPickerCalls, vidRenders>>
    /\ UNCHANGED vidHasPicker
    /\ UNCHANGED <<spinnerVars, noteVars, pubVars, imgVars, progVars, opsVars, presetVars>>

\* showPopup, awaited in the catch clause, resolves or rejects
VidPopupSettles ==
    /\ vidPc = "awaitPopup"
    /\ vidPc' = "done"
    /\ \E r \in {"undefined", "rejected"} : vidResult' = r
    /\ UNCHANGED <<vidSettings, vidDocNames, vidFileExtension, vidFilePickerTypes,
                   vidSuggested, vidPickerCalls, vidRenders, vidPopups, vidFailure>>
    /\ UNCHANGED vidHasPicker
    /\ UNCHANGED <<spinnerVars, noteVars, pubVars, imgVars, progVars, opsVars, presetVars>>

---------------------------------------------------------------------------
(* Camera presets: applyPreset, called by the viewer's preset buttons *)

\* what (window as any).scene may be: absent, or an object whose camera may
\* be missing or may lack setPose
Scenes == {"absent", "noCamera", "noSetPose", "full"}

\* CAMERA_TARGETS: position and target of each preset, as x, y, z
CAMERA_TARGETS ==
    [image1 |->
        [position |-> <<"-0.09481655806303024", "1.9842095375061035", "-30.723054885864258">>,
         target |-> <<"0.3025389442118099", "2.315386377683981", "-49.691884485997235">>],
     image2 |->
        [position |-> <<"0.8265447020530701", "2.75212025642395", "-74.70670318603516">>,
         target |-> <<"13.980445489022944", "5.327443779980989", "-88.1390024722935">>],
     image3 |->
        [position |-> <<"0.9127567410469055", "9.438339233398438", "-67.42160034179688">>,
         target |-> <<"0.8746512648643985", "5.859911900022582", "-66.74004597150994">>]]
PresetKeys == {"image1", "image2", "image3"}

\* const moveSpeed = 2.6, in tenths
moveSpeed == 26
\* const moveEasing = 'easeIn'
moveEasing == "easeIn"

\* events.fire(name, ...args): every subscriber of the event is called with
\* the arguments
BusDelivery(listener, event) ==
    IF listener THEN <<[event EXCEPT !.kind = "listener"]>> ELSE <<>>

\* scene?.camera?.setPose?.(...): the call is made when scene, its camera
\* and the camera's setPose all exist
CallsSetPoseWheneverScene(sc) == sc # "absent"
CallsSetPose(sc) == sc = "full"

\* if (scene) { scene.forceRender = true; }
SetsForceRender(sc) == sc # "absent"

\* the effect applyPreset has for a pose: a bus event or a direct call
PoseEffect(kind, name, key) ==
    [kind |-> kind, name |-> name,
     position |-> CAMERA_TARGETS[key].position, target |-> CAMERA_TARGETS[key].target,
     speed |-> moveSpeed, easing |-> moveEasing]

\* applyPreset(key), with the global scene and the camera.setPose subscriber
\* it finds
applyPreset ==
    /\ Len(presetCalls) < MaxPresetCalls
    /\ \E key \in PresetKeys, sc \in Scenes, listener \in BOOLEAN :
        /\ scene' = sc
        /\ presetCalls' = Append(presetCalls,
               [key |-> key, scene |-> sc, listener |-> listener,
                effects |->
                    <<PoseEffect("fire", "camera.setPose", key)>>
                    \o BusDelivery(listener, PoseEffect("fire", "camera.setPose", key))
                    \o (IF CallsSetPose(sc)
                          THEN <<PoseEffect("call", "scene.camera.setPose", key)>>
                          ELSE <<>>),
                forceRender |-> SetsForceRender(sc)])
        /\ sceneForceRender' = IF SetsForceRender(sc) THEN TRUE ELSE sceneForceRender
    /\ UNCHANGED <<spinnerVars, noteVars, pubVars, vidVars, imgVars, progVars, opsVars>>

---------------------------------------------------------------------------
(* Specifications *)

Init ==
    /\ spinnerCount = 0
    /\ spinnerHidden = SpinnerInitiallyHidden
    /\ starts = 0
    /\ stops = 0
    /\ stopsAtZero = 0
    /\ noteDisplay = "unset"
    /\ noteLeft = 0
    /\ noteTop = 0
    /\ noteScreen = [x |-> 0, y |-> 0, z |-> 0]
    /\ noteRuns = 0
    /\ noteCamera = FALSE
    /\ pubPc = [i \in PubInv |-> "idle"]
    /\ pubStatus = [i \in PubInv |-> "unset"]
    /\ pubPopups = [i \in PubInv |-> <<>>]
    /\ pubShows = [i \in PubInv |-> <<>>]
    /\ pubPublishes = [i \in PubInv |-> <<>>]
    /\ pubResult = [i \in PubInv |-> "pending"]
    /\ vidPc = "idle"
    /\ vidSettings = UnsetVideoSettings
    /\ vidDocNames = <<>>
    /\ vidFileExtension = <<>>
    /\ vidFilePickerTypes = UnsetFilePickerTypes
    /\ vidSuggested = <<>>
    /\ vidPickerCalls = <<>>
    /\ vidRenders = <<>>
    /\ vidPopups = <<>>
    /\ vidFailure = NoFailure
    /\ vidResult = "pending"
    /\ vidHasPicker = "untested"
    /\ pubSettings = [i \in PubInv |-> "unset"]
    /\ imgPc = "idle"
    /\ imgSettings = "unset"
    /\ imgRenders = <<>>
    /\ imgResult = "pending"
    /\ progressHidden = ProgressInitiallyHidden
    /\ progressHeader = DefaultHeader
    /\ progressText = DefaultText
    /\ progressValue = DefaultValue
    /\ progLast = NoProgressEvent
    /\ spinOps = [o \in Ops |-> "idle"]
    /\ progOps = [o \in Ops |-> "idle"]
    /\ scene = "absent"
    /\ sceneForceRender = FALSE
    /\ presetCalls = <<>>

SpinnerNext == startSpinner \/ stopSpinner
SpinnerSpec == Init /\ [][SpinnerNext]_vars

ProgressNext == progressStart \/ progressUpdate \/ progressEnd
ProgressSpec == Init /\ [][ProgressNext]_vars

SpinnerOpsNext == \E o \in Ops : SpinOpBegin(o) \/ SpinOpEnd(o)
SpinnerOpsSpec == Init /\ [][SpinnerOpsNext]_vars

ProgressOpsNext == \E o \in Ops : ProgOpBegin(o) \/ ProgOpEnd(o)
ProgressOpsSpec == Init /\ [][ProgressOpsNext]_vars

NoteNext == updateNoteNoCamera \/ updateNoteCamera
NoteSpec == Init /\ [][NoteNext]_vars

PublishNext ==
    \E i \in PubInv :
        \/ PubInvoke(i)
        \/ PubUserStatusResolves(i)
        \/ PubAwaitedRejects(i)
        \/ PubPopupResolves(i)
        \/ PubDialogResolves(i)
        \/ PubPublishResolves(i)
PublishSpec == Init /\ [][PublishNext]_vars

VideoNext ==
    \/ VidInvoke
    \/ VidDialogRejects
    \/ VidDialogDismissed
    \/ VidDocNameThrows
    \/ VidDialogConfirmed
    \/ VidPickerResolves
    \/ VidPickerRejects
    \/ VidWritableResolves
    \/ VidWritableRejects
    \/ VidRenderResolves
    \/ VidRenderRejects
    \/ VidPopupSettles
VideoSpec == Init /\ [][VideoNext]_vars

ImageNext == ImgInvoke \/ ImgDialogResolves \/ ImgAwaitedRejects \/ ImgRenderResolves
ImageSpec == Init /\ [][ImageNext]_vars

\* The three dialog commands. Their handlers share no variable, so a
\* behaviour exercises the invocations of one command: a command is taken up
\* only while the other two have never been invoked.
DialogNext ==
    \/ /\ imgPc = "idle" /\ vidPc = "idle"
       /\ PublishNext
    \/ /\ vidPc = "idle" /\ \A i \in PubInv : pubPc[i] = "idle"
       /\ ImageNext
    \/ /\ imgPc = "idle" /\ \A i \in PubInv : pubPc[i] = "idle"
       /\ VideoNext
DialogSpec == Init /\ [][DialogNext]_vars

PresetNext == applyPreset
PresetSpec == Init /\ [][PresetNext]_vars

Next == PresetNext \/ ImageNext \/ ProgressNext \/ SpinnerOpsNext \/ ProgressOpsNext \/ SpinnerNext \/ NoteNext \/ PublishNext \/ VideoNext
Spec == Init /\ [][Next]_vars

---------------------------------------------------------------------------
(* Claims about the spinner, checked under SpinnerSpec *)

\* C1 (as stated): after any sequence of startSpinner and stopSpinner events
\* the count equals max(0, starts - stops).
C1_CountIsMaxOfDifference == spinnerCount = Max(0, starts - stops)

\* C1 (amended): the count equals starts minus the stopSpinner events that
\* were fired while the count was positive; it equals max(0, starts - stops)
\* as long as no stopSpinner event was fired while the count was 0.
C1_CountIsStartsMinusEffectiveStops ==
    /\ spinnerCount = starts - (stops - stopsAtZero)
    /\ (stopsAtZero = 0 => spinnerCount = Max(0, starts - stops))

C1_Witness == stopsAtZero > 0 /\ starts > 0 /\ spinnerCount = starts

\* C2: in every reachable state the spinner is visible iff the count is
\* greater than 0.
C2_VisibleIffPositive == (~spinnerHidden) <=> (spinnerCount > 0)

C2_Witness == spinnerCount > 1 /\ ~spinnerHidden /\ stops > 0

\* C3: the count is never negative, and a stopSpinner event fired while the
\* count is 0 leaves the count at 0 and the visibility unchanged.
C3_NeverNegativeStopAtZeroNoOp ==
    /\ [](spinnerCount >= 0)
    /\ [][(stops' = stops + 1 /\ spinnerCount = 0)
            => (spinnerCount' = 0 /\ spinnerHidden' = spinnerHidden)]_vars

C3_Witness == stopsAtZero > 0 /\ spinnerCount = 0 /\ spinnerHidden

---------------------------------------------------------------------------
(* Claims about the annotation projector, checked under NoteSpec *)

\* C10: after every run of updateNote the annotation is hidden whenever the
\* camera capability is absent or the projected point lies outside [0,1] on
\* x, y or depth (a depth of 1.5 hides it whatever x and y are), and it is
\* shown only when the capability is present and all three are within [0,1].
C10_HiddenUnlessInsideUnitBox ==
    noteRuns > 0 =>
        /\ (~noteCamera => noteDisplay = "none")
        /\ (noteCamera /\ (noteScreen.x < 0 \/ noteScreen.x > 10) => noteDisplay = "none")
        /\ (noteCamera /\ (noteScreen.y < 0 \/ noteScreen.y > 10) => noteDisplay = "none")
        /\ (noteCamera /\ (noteScreen.z < 0 \/ noteScreen.z > 10) => noteDisplay = "none")
        /\ (noteCamera /\ noteScreen.z = 15 => noteDisplay = "none")
        /\ (noteDisplay = "flex" =>
               /\ noteCamera
               /\ noteScreen.x \in 0..10
               /\ noteScreen.y \in 0..10
               /\ noteScreen.z \in 0..10)
        /\ noteDisplay \in {"none", "flex"}

C10_Witness ==
    /\ noteRuns > 0 /\ noteCamera
    /\ noteScreen.z = 15 /\ noteScreen.x = 5 /\ noteScreen.y = 5
    /\ noteDisplay = "none"

---------------------------------------------------------------------------
(* Claims about the publish flow, checked under PublishSpec *)

\* C4: whenever publish.userStatus resolves to a falsy value, showPopup is
\* invoked with type error and the please-log-in message, the publish
\* settings dialog is never shown and scene.publish is never invoked during
\* that invocation.
C4_UnauthenticatedPublishShortCircuits ==
    \A i \in PubInv :
        pubStatus[i] \in {"null", "undefined", "false"} =>
            /\ Len(pubPopups[i]) = 1
            /\ pubPopups[i][1].type = "error"
            /\ pubPopups[i][1].message = "popup.publish.please-log-in"
            /\ pubShows[i] = <<>>
            /\ pubPublishes[i] = <<>>

C4_Witness ==
    \E i \in PubInv :
        pubStatus[i] = "undefined" /\ pubPc[i] = "done" /\ pubResult[i] = "false"

---------------------------------------------------------------------------
(* Claims about the video flow, checked under VideoSpec *)

\* the user cancelled the destination picker: showSaveFilePicker rejected with
\* a DOMException named AbortError
PickerCancelled ==
    /\ vidFailure.origin = "picker"
    /\ vidFailure.error.dom
    /\ vidFailure.error.name = "AbortError"

\* C5: when the dialog is confirmed and the user then cancels the destination
\* picker, the flow terminates without invoking showPopup.
C5_PickerCancelIsSilent ==
    PickerCancelled => (vidPopups = <<>> /\ vidPc = "done" /\ vidResult = "undefined")

C5_Witness ==
    /\ PickerCancelled
    /\ vidSettings \in VideoSettings
    /\ Len(vidPickerCalls) = 1
    /\ vidPc = "done"

\* C6: once the settings dialog has been confirmed, every failure other than
\* the user's cancellation of the destination picker, whatever the type of
\* the error raised, results in exactly one showPopup of type error with
\* header 'Failed to render video' carrying the failure's message.
C6_EveryOtherFailureIsNotifiedOnce ==
    (vidFailure.origin # "none" /\ ~PickerCancelled) =>
        /\ Len(vidPopups) = 1
        /\ vidPopups[1].type = "error"
        /\ vidPopups[1].header = "Failed to render video"
        /\ vidPopups[1].message[2] \in {vidFailure.error.message, vidFailure.error.text}

\* C7 (as stated): when the user cancels the destination picker, render.video
\* is still invoked, with the settings and without a destination.
C7_PickerCancelStillRenders ==
    (PickerCancelled /\ vidPc = "done") =>
        /\ Len(vidRenders) = 1
        /\ vidRenders[1].settings = vidSettings
        /\ vidRenders[1].writable = "undefined"

\* C7 (amended): when the user cancels the destination picker, render.video is
\* not invoked at all in that invocation, with or without a destination.
C7_PickerCancelNeverRenders == PickerCancelled => vidRenders = <<>>

C7_Witness ==
    /\ PickerCancelled
    /\ vidSettings \in VideoSettings
    /\ vidPc = "done"
    /\ vidResult = "undefined"
    /\ vidRenders = <<>>

\* the last n characters of s
C8_Suffix(s, n) == SubSeq(s, Len(s) - n + 1, Len(s))

\* C8: the file extension and MIME type follow the fixed table (webm ->
\* .webm, video/webm; mov -> .mov, video/quicktime; mkv -> .mkv,
\* video/x-matroska; every other format -> .mp4, video/mp4), and the
\* extension of the suggested filename is the one listed in the picker's
\* accept entry.
C8_FormatTable ==
    vidDocNames # <<>> =>
        /\ vidSettings.format = "webm" =>
               /\ vidFileExtension = <<".", "w", "e", "b", "m">>
               /\ vidFilePickerTypes.mime = "video/webm"
        /\ vidSettings.format = "mov" =>
               /\ vidFileExtension = <<".", "m", "o", "v">>
               /\ vidFilePickerTypes.mime = "video/quicktime"
        /\ vidSettings.format = "mkv" =>
               /\ vidFileExtension = <<".", "m", "k", "v">>
               /\ vidFilePickerTypes.mime = "video/x-matroska"
        /\ vidSettings.format \notin {"webm", "mov", "mkv"} =>
               /\ vidFileExtension = <<".", "m", "p", "4">>
               /\ vidFilePickerTypes.mime = "video/mp4"
        /\ vidFilePickerTypes.extensions = <<vidFileExtension>>
        /\ C8_Suffix(vidSuggested, Len(vidFileExtension)) = vidFileExtension
        /\ \A k \in DOMAIN vidPickerCalls :
               /\ vidPickerCalls[k].types = <<vidFilePickerTypes>>
               /\ vidPickerCalls[k].suggestedName = vidSuggested
               /\ C8_Suffix(vidPickerCalls[k].suggestedName,
                            Len(vidPickerCalls[k].types[1].extensions[1]))
                      = vidPickerCalls[k].types[1].extensions[1]

C8_Witness ==
    /\ vidSettings \in VideoSettings
    /\ vidSettings.format = "mkv"
    /\ Len(vidPickerCalls) = 1
    /\ vidPickerCalls[1].types[1].mime = "video/x-matroska"

\* a file name with its extension stripped: what precedes its last dot, or
\* the whole name when it has no dot
C9_StripExtension(s) ==
    IF \E i \in 1..Len(s) : s[i] = "."
      THEN SubSeq(s, 1, (CHOOSE i \in 1..Len(s) :
                           s[i] = "." /\ \A j \in (i + 1)..Len(s) : s[j] # ".") - 1)
      ELSE s

\* the name the suggestion is built from: the document name, or 'supersplat'
\* when doc.name returns none
C9_Base ==
    IF vidDocNames[1].kind = "string" THEN vidDocNames[1].chars ELSE Supersplat

\* C9: the suggested filename equals the document name with its extension
\* stripped, followed by the extension derived from the format ('scene.ply'
\* with mkv gives 'scene.mkv'); when doc.name returns no name the base
\* 'supersplat' is used.
C9_SuggestedIsStrippedNamePlusExtension ==
    vidDocNames # <<>> =>
        vidSuggested = C9_StripExtension(C9_Base) \o vidFileExtension

\* C9 (restricted to document names without a question mark): the same
\* statement, which the code satisfies for such names.
C9_HoldsForNamesWithoutQuery ==
    (vidDocNames # <<>> /\ \A i \in 1..Len(C9_Base) : C9_Base[i] # "?") =>
        vidSuggested = C9_StripExtension(C9_Base) \o vidFileExtension

---------------------------------------------------------------------------
(* Claims about the progress overlay, checked under ProgressSpec *)

\* C11: a progressStart(header) event shows the progress overlay, sets the
\* header to the given value, and resets the stored text and progress value
\* to their defaults, whatever earlier progressUpdate events had set.
C11_ProgressStartResets ==
    progLast.event = "start" =>
        /\ ~progressHidden
        /\ progressHeader = progLast.header
        /\ progressText = DefaultText
        /\ progressValue = DefaultValue

\* C12: a progressUpdate event changes only the fields present in its
\* payload: without a text the text is unchanged, without a progress value
\* the value is unchanged, and neither the header nor the overlay's
\* visibility changes.
C12_ProgressUpdateChangesOnlyPresentFields ==
    [][progLast'.event = "update" =>
          /\ progressHidden' = progressHidden
          /\ progressHeader' = progressHeader
          /\ (progLast'.text = "undefined" => progressText' = progressText)
          /\ (progLast'.progress.kind = "undefined" => progressValue' = progressValue)]_vars

C12_Witness ==
    /\ progLast.event = "update"
    /\ progLast.text = "undefined"
    /\ progLast.progress = [kind |-> "number", n |-> 5]
    /\ progressText = "frame 1"
    /\ progressValue = 5
    /\ progressHeader = "Exporting"
    /\ ~progressHidden

---------------------------------------------------------------------------
(* Claims about concurrent operations, checked under SpinnerOpsSpec and
   ProgressOpsSpec *)

\* C17: under every interleaving of the begin and end events of operations
\* that fire startSpinner once when they begin and stopSpinner once when they
\* end, the spinner is visible whenever at least one operation is in
\* progress, and hidden once all of them have ended.
C17_SpinnerVisibleWhileAnyOperationRuns ==
    /\ (\E o \in Ops : spinOps[o] = "running") => ~spinnerHidden
    /\ (\A o \in Ops : spinOps[o] # "running") => spinnerHidden

C17_Witness ==
    /\ \E o \in Ops : spinOps[o] = "ended"
    /\ Cardinality({o \in Ops : spinOps[o] = "running"}) >= 2
    /\ ~spinnerHidden

\* C18: under every interleaving of operations that fire progressStart when
\* they begin and progressEnd when they end, the progress overlay is visible
\* whenever at least one such operation is in progress.
C18_ProgressVisibleWhileAnyOperationRuns ==
    (\E o \in Ops : progOps[o] = "running") => ~progressHidden

---------------------------------------------------------------------------
(* Claims about the dialog commands, checked under DialogSpec and PublishSpec *)

\* an invocation ended Confirmed: the dialog returned settings and the
\* downstream command was invoked (once); Cancelled: no settings were
\* returned and the downstream command was not invoked
PubConfirmed(i) == pubSettings[i] \in PublishSettings /\ Len(pubPublishes[i]) = 1
PubCancelled(i) == pubSettings[i] \notin PublishSettings /\ pubPublishes[i] = <<>>
ImgConfirmed == imgSettings \in ImageSettings /\ Len(imgRenders) = 1
ImgCancelled == imgSettings \notin ImageSettings /\ imgRenders = <<>>
VidConfirmed == vidSettings \in VideoSettings /\ Len(vidRenders) = 1
VidCancelled == vidSettings \notin VideoSettings /\ vidRenders = <<>>
\* the video flow left its try block before render.video
VidFailedBeforeRender ==
    /\ vidSettings \in VideoSettings
    /\ vidRenders = <<>>
    /\ vidFailure.origin \in {"doc.name", "picker", "createWritable"}

\* a settled invocation stays settled as it was (until the command is invoked again)
SettlesOnce ==
    /\ \A i \in PubInv : pubResult[i] # "pending" => pubResult'[i] = pubResult[i]
    /\ imgResult # "pending" => (imgResult' = imgResult \/ imgPc' = "awaitDialog")
    /\ vidResult # "pending" => (vidResult' = vidResult \/ vidPc' = "awaitDialog")

C15_PublishOnceWithDialogSettings ==
    \A i \in PubInv :
        pubStatus[i] \in {"userA", "userB"} =>
            /\ pubSettings[i] \in PublishSettings => pubPublishes[i] = <<pubSettings[i]>>
            /\ pubSettings[i] = "null" => pubPublishes[i] = <<>>
            /\ pubSettings[i] = "unset" => pubPublishes[i] = <<>>
            /\ pubShows[i] = <<pubStatus[i]>>

C15_Witness ==
    \E i \in PubInv :
        /\ pubStatus[i] = "userA"
        /\ pubSettings[i] = "settingsB"
        /\ pubPublishes[i] = <<"settingsB">>
        /\ pubPc[i] = "done"

\* C19: a dialog's show() is only ever called while that dialog is Idle: a
\* second invocation of the same command issued while the first is still
\* suspended never calls show() on a dialog that is already Showing (here the
\* publish dialog, Showing while an invocation is suspended in its show()).
C19_ShowOnlyWhileIdle ==
    [][\A i \in PubInv :
          Len(pubShows'[i]) > Len(pubShows[i]) =>
              \A j \in PubInv : pubPc[j] # "awaitDialog"]_vars

\* C20: when the settings dialog is confirmed and the host provides no
\* destination picker, render.video is invoked exactly once, with the
\* confirmed settings and no destination, and no picker request is made.
C20_NoPickerRendersWithoutDestination ==
    vidHasPicker = "no" =>
        /\ vidRenders = <<[settings |-> vidSettings, writable |-> "undefined"]>>
        /\ vidSettings \in VideoSettings
        /\ vidPickerCalls = <<>>

C20_Witness ==
    /\ vidHasPicker = "no"
    /\ vidPc = "done"
    /\ vidResult = "undefined"
    /\ vidFailure = NoFailure
    /\ Len(vidRenders) = 1

---------------------------------------------------------------------------
(* Claims about the camera presets, checked under PresetSpec *)

\* the effects of kind k in a call
C16_Effects(c, k) == SelectSeq(c.effects, LAMBDA e : e.kind = k)

\* the bus event of a call carries the pose of the table entry for its key,
\* speed 2.6 and easing 'easeIn', and is the first thing the call does
C16_OneBusEvent(c) ==
    /\ Len(C16_Effects(c, "fire")) = 1
    /\ c.effects[1].kind = "fire"
    /\ c.effects[1].name = "camera.setPose"
    /\ c.effects[1].position = CAMERA_TARGETS[c.key].position
    /\ c.effects[1].target = CAMERA_TARGETS[c.key].target
    /\ c.effects[1].speed = 26
    /\ c.effects[1].easing = "easeIn"

\* the direct call of a call comes last and has the arguments of the bus event
C16_DirectCall(c) ==
    /\ Len(C16_Effects(c, "call")) = 1
    /\ c.effects[Len(c.effects)] =
           [c.effects[1] EXCEPT !.kind = "call", !.name = "scene.camera.setPose"]
    /\ (c.listener => Len(c.effects) = 3 /\ c.effects[2].kind = "listener")

\* C16 (as stated): applyPreset(key) always fires exactly one camera.setPose
\* bus event with the pose of the table entry, speed 2.6 and easing 'easeIn';
\* if a global scene is present it also calls the scene camera's pose-setter
\* with the same arguments (after the bus event) and sets scene.forceRender.
C16_DirectCallWheneverScenePresent ==
    \A k \in DOMAIN presetCalls :
        /\ C16_OneBusEvent(presetCalls[k])
        /\ presetCalls[k].scene # "absent" =>
               (C16_DirectCall(presetCalls[k]) /\ presetCalls[k].forceRender)

\* C16 (amended): applyPreset(key) always fires exactly one camera.setPose bus
\* event with the pose of the table entry, speed 2.6 and easing 'easeIn'; if a
\* global scene is present it sets scene.forceRender to true, and if that
\* scene's camera exposes setPose it also calls it directly with the same
\* arguments, after the bus event; a scene without camera or without setPose
\* gets no direct call, and without a scene nothing but the bus event happens.
C16_DirectCallWhenSetPoseExists ==
    /\ \A k \in DOMAIN presetCalls :
        /\ C16_OneBusEvent(presetCalls[k])
        /\ presetCalls[k].scene = "full" => C16_DirectCall(presetCalls[k])
        /\ presetCalls[k].scene # "full" => C16_Effects(presetCalls[k], "call") = <<>>
        /\ presetCalls[k].forceRender <=> presetCalls[k].scene # "absent"
    /\ (presetCalls # <<>> /\ scene # "absent") => sceneForceRender

C16_Witness ==
    /\ Len(presetCalls) = 2
    /\ presetCalls[1].scene = "full" /\ presetCalls[1].listener
    /\ Len(presetCalls[1].effects) = 3
    /\ presetCalls[2].scene = "noCamera" /\ presetCalls[2].key = "image3"
    /\ sceneForceRender

---------------------------------------------------------------------------
(* Claim about the order of the calls of the video flow, checked under VideoSpec *)

\* what holds of the calls made so far in the current invocation
C21_CallsSoFar ==
    /\ Len(vidRenders) <= 1
    /\ vidRenders # <<>> =>
           /\ vidSettings \in VideoSettings
           /\ vidRenders[1].settings = vidSettings
           /\ vidPc \in {"awaitRender", "awaitPopup", "done"}
    /\ (vidRenders # <<>> /\ vidHasPicker = "yes") =>
           /\ Len(vidPickerCalls) = 1
           /\ vidRenders[1].writable = "writable"
           /\ vidFailure.origin \notin {"picker", "createWritable"}
    /\ vidSettings = NoVideoSettings =>
           /\ vidDocNames = <<>>
           /\ vidPickerCalls = <<>>
           /\ vidRenders = <<>>
           /\ vidPopups = <<>>
           /\ vidFailure = NoFailure
           /\ vidHasPicker = "untested"
           /\ vidPc = "done"

\* render.video is invoked in the step in which the dialog resolves with
\* settings and no picker is found, or in the step in which createWritable
\* resolves, and in no other
C21_RenderStep ==
    vidRenders' # vidRenders =>
        \/ vidRenders' = <<>>
        \/ /\ vidRenders = <<>>
           /\ vidPc = "awaitDialog" /\ vidHasPicker' = "no" /\ vidPickerCalls' = <<>>
        \/ /\ vidRenders = <<>>
           /\ vidPc = "awaitWritable" /\ vidHasPicker = "yes" /\ Len(vidPickerCalls) = 1

\* C21: in every execution of the video flow render.video is invoked at most
\* once per invocation of show.videoSettingsDialog, only after the dialog
\* resolved with settings and, when the host provides a destination picker,
\* only after the picker returned a handle and its writable was created; if
\* the dialog is dismissed without settings, neither doc.name, the picker,
\* render.video nor showPopup is invoked.
C21_RenderOnlyAfterSettingsAndWritable ==
    []C21_CallsSoFar /\ [][C21_RenderStep]_vars

C21_Witness ==
    /\ vidPc = "done"
    /\ vidHasPicker = "yes"
    /\ Len(vidPickerCalls) = 1
    /\ Len(vidRenders) = 1
    /\ vidRenders[1].writable = "writable"
    /\ vidRenders[1].settings = vidSettings
    /\ vidFailure = NoFailure

C21_WitnessDismissed ==
    /\ vidPc = "done"
    /\ vidSettings = NoVideoSettings
    /\ vidRenders = <<>>

=============================================================================
